---------------------------- MODULE Spec2Model ----------------------------
(***************************************************************************)
(* Lookalike pipeline of Utkarsh_Pal_Lookalike.ipynb: merge of the three   *)
(* tables, per-customer aggregation, one-hot encoding of Region, min-max   *)
(* scaling, cosine similarity and the top-3 selection loop.                *)
(*                                                                         *)
(* Tables are sequences of rows (records); a data frame is a record of its *)
(* index (sequence of customer keys), its columns (sequence of labels) and *)
(* its values (one row per index entry).  Keys, regions, products and      *)
(* categories are positive integers; NaN stands for a missing value.       *)
(* Arithmetic is exact: a scaled feature is a reduced fraction <<n, d>>,   *)
(* and a similarity score is the square of the cosine as a reduced         *)
(* fraction (all features are >= 0, so cosines are >= 0 and squares order  *)
(* the same way).  Floating-point rounding is not modelled.                *)
(***************************************************************************)
EXTENDS Integers, Sequences, FiniteSets, TLC

VARIABLES customers, products, transactions,
          pc, error,
          transactions_products, full_data,
          transaction_features, customer_features,
          customer_data, customer_data_scaled,
          similarity_df,
          first_20_customers, loop_i, lookalike_dict

vars == <<customers, products, transactions, pc, error,
          transactions_products, full_data, transaction_features,
          customer_features, customer_data, customer_data_scaled,
          similarity_df, first_20_customers, loop_i, lookalike_dict>>

-----------------------------------------------------------------------------
(* Bounds of the model and constants of the program *)

\* most rows of the customer and transaction tables together, detailed inputs
MaxRows == 4
\* largest population of the ranking input family
MaxRank == 5

\* sim_scores.nlargest(3)
TopK == 3
\* customers['CustomerID'].head(20)
HeadN == 20

\* a value pandas reads as missing (an empty Region cell, an unmatched merge key)
NaN == 0

-----------------------------------------------------------------------------
(* Generic helpers *)

SeqToSet(s) == {s[i] : i \in 1..Len(s)}

Min(S) == CHOOSE x \in S : \A y \in S : x <= y
Max(S) == CHOOSE x \in S : \A y \in S : x >= y

RECURSIVE SortedSeq(_)
SortedSeq(S) == IF S = {} THEN <<>>
                ELSE LET m == Min(S) IN <<m>> \o SortedSeq(S \ {m})

RECURSIVE SumSeq(_)
SumSeq(s) == IF s = <<>> THEN 0 ELSE Head(s) + SumSeq(Tail(s))

RECURSIVE Flatten(_)
Flatten(ss) == IF ss = <<>> THEN <<>> ELSE Head(ss) \o Flatten(Tail(ss))

RECURSIVE GCD(_, _)
GCD(a, b) == IF b = 0 THEN a ELSE GCD(b, a % b)

LCM(a, b) == (a * b) \div GCD(a, b)

RECURSIVE LCMSeq(_)
LCMSeq(s) == IF s = <<>> THEN 1 ELSE LCM(Head(s), LCMSeq(Tail(s)))

\* the fraction n/d (d > 0, n >= 0) in lowest terms
Frac(n, d) == LET g == GCD(n, d) IN <<n \div g, d \div g>>

\* a/b < c/d and a/b <= c/d for fractions with positive denominators
FracLess(x, y) == x[1] * y[2] < y[1] * x[2]
FracLeq(x, y) == x[1] * y[2] <= y[1] * x[2]

\* positions of a label in a sequence of labels, ascending
Positions(s, x) == SelectSeq([i \in 1..Len(s) |-> i], LAMBDA i : s[i] = x)

\* position of the first occurrence of x in s (0 when absent)
IndexOf(s, x) == IF x \in SeqToSet(s)
                 THEN Min({i \in 1..Len(s) : s[i] = x}) ELSE 0

EmptyFrame == [index |-> <<>>, columns |-> <<>>, values |-> <<>>]

-----------------------------------------------------------------------------
(* 3. Data preparation and merging *)

\* pd.merge(transactions, products, on='ProductID', how='left')
MergeProducts(txns, prods) ==
    Flatten([i \in 1..Len(txns) |->
        LET t == txns[i]
            m == SelectSeq(prods, LAMBDA p : p.ProductID = t.ProductID)
        IN IF m = <<>>
           THEN << [TransactionID |-> t.TransactionID, CustomerID |-> t.CustomerID,
                    ProductID |-> t.ProductID, Quantity |-> t.Quantity,
                    TotalValue |-> t.TotalValue, Category |-> NaN] >>
           ELSE [j \in 1..Len(m) |->
                   [TransactionID |-> t.TransactionID, CustomerID |-> t.CustomerID,
                    ProductID |-> t.ProductID, Quantity |-> t.Quantity,
                    TotalValue |-> t.TotalValue, Category |-> m[j].Category]]])

\* pd.merge(transactions_products, customers, on='CustomerID', how='left')
MergeCustomers(tp, custs) ==
    Flatten([i \in 1..Len(tp) |->
        LET t == tp[i]
            m == SelectSeq(custs, LAMBDA c : c.CustomerID = t.CustomerID)
        IN IF m = <<>>
           THEN << [TransactionID |-> t.TransactionID, CustomerID |-> t.CustomerID,
                    ProductID |-> t.ProductID, Quantity |-> t.Quantity,
                    TotalValue |-> t.TotalValue, Category |-> t.Category,
                    Region |-> NaN] >>
           ELSE [j \in 1..Len(m) |->
                   [TransactionID |-> t.TransactionID, CustomerID |-> t.CustomerID,
                    ProductID |-> t.ProductID, Quantity |-> t.Quantity,
                    TotalValue |-> t.TotalValue, Category |-> t.Category,
                    Region |-> m[j].Region]]])

-----------------------------------------------------------------------------
(* 4.1 Aggregate transaction data *)

\* groupby keys: pandas drops the rows whose group key is missing
GroupRows(fd, cust, cat) ==
    SelectSeq(fd, LAMBDA r : r.CustomerID = cust /\ r.Category = cat)

\* the Category level of the grouped index: observed categories, sorted
ObservedCategories(fd) ==
    SortedSeq({fd[i].Category : i \in 1..Len(fd)} \ {NaN})

\* the CustomerID level of the grouped index: customers with a categorised row
GroupedCustomers(fd) ==
    SortedSeq({fd[i].CustomerID : i \in {k \in 1..Len(fd) : fd[k].Category # NaN}})

\* full_data.groupby(['CustomerID', 'Category'])[col].sum().unstack(fill_value=0)
SumPerCategory(fd, col) ==
    LET idx == GroupedCustomers(fd)
        cats == ObservedCategories(fd)
    IN [index   |-> idx,
        columns |-> [j \in 1..Len(cats) |-> <<"Category", cats[j]>>],
        values  |-> [i \in 1..Len(idx) |-> [j \in 1..Len(cats) |->
                       LET g == GroupRows(fd, idx[i], cats[j])
                       IN IF g = <<>> THEN 0
                          ELSE SumSeq([k \in 1..Len(g) |-> g[k][col]])]]]

\* variant: the quantity column summed in place of the value column
spend_per_category_Quantity(fd) == SumPerCategory(fd, "Quantity")

spend_per_category(fd) == SumPerCategory(fd, "TotalValue")

quantity_per_category(fd) == SumPerCategory(fd, "Quantity")

\* full_data.groupby('CustomerID')[col].nunique().rename(name)
NUniquePerCustomer(fd, col, name) ==
    LET idx == SortedSeq({fd[i].CustomerID : i \in 1..Len(fd)})
    IN [index   |-> idx,
        columns |-> << <<name, 0>> >>,
        values  |-> [i \in 1..Len(idx) |->
                       << Cardinality({fd[k][col] :
                             k \in {n \in 1..Len(fd) : fd[n].CustomerID = idx[i]}}) >>]]

unique_products(fd) == NUniquePerCustomer(fd, "ProductID", "UniqueProducts")

total_transactions(fd) == NUniquePerCustomer(fd, "TransactionID", "TotalTransactions")

\* variant: a key the frame lacks gets no entries at all
RowOrZeros_Ragged(f, key) ==
    LET p == IndexOf(f.index, key)
    IN IF p = 0 THEN <<>> ELSE f.values[p]

\* row of a frame for a key; a key the frame lacks gives missing values,
\* which fillna(0) turns into zeros
RowOrZeros(f, key) ==
    LET p == IndexOf(f.index, key)
    IN IF p = 0 THEN [j \in 1..Len(f.columns) |-> 0] ELSE f.values[p]

\* pd.concat(frames, axis=1) followed by fillna(0)
ConcatColumns(frames) ==
    LET idx == SortedSeq(UNION {SeqToSet(frames[k].index) : k \in 1..Len(frames)})
    IN [index   |-> idx,
        columns |-> Flatten([k \in 1..Len(frames) |-> frames[k].columns]),
        values  |-> [i \in 1..Len(idx) |->
                       Flatten([k \in 1..Len(frames) |-> RowOrZeros(frames[k], idx[i])])]]

TransactionFeatures(fd) ==
    ConcatColumns(<< spend_per_category(fd), quantity_per_category(fd),
                     unique_products(fd), total_transactions(fd) >>)

-----------------------------------------------------------------------------
(* 4.2 Encode customer profile information *)

\* variant: a missing value is no category (its records get no indicator)
RegionCategories_DropNaN(custs) ==
    SortedSeq({custs[i].Region : i \in 1..Len(custs)} \ {NaN})

\* OneHotEncoder.categories_: the sorted distinct values, a missing value last
RegionCategories(custs) ==
    LET vals == {custs[i].Region : i \in 1..Len(custs)}
    IN SortedSeq(vals \ {NaN}) \o (IF NaN \in vals THEN <<NaN>> ELSE <<>>)

\* region_encoder.fit_transform(customers[['Region']]) as region_encoded_df
RegionEncoded(custs) ==
    LET cats == RegionCategories(custs)
    IN [index   |-> [i \in 1..Len(custs) |-> custs[i].CustomerID],
        columns |-> [j \in 1..Len(cats) |-> <<"Region", cats[j]>>],
        values  |-> [i \in 1..Len(custs) |-> [j \in 1..Len(cats) |->
                       IF custs[i].Region = cats[j] THEN 1 ELSE 0]]]

-----------------------------------------------------------------------------
(* 4.3 Combine customer profile and transaction features *)

\* variant: how='inner', only the keys that both frames have
JoinLeft_Inner(left, right) ==
    LET keep == SelectSeq([i \in 1..Len(left.index) |-> i],
                          LAMBDA i : left.index[i] \in SeqToSet(right.index))
    IN [index   |-> [k \in 1..Len(keep) |-> left.index[keep[k]]],
        columns |-> left.columns \o right.columns,
        values  |-> [k \in 1..Len(keep) |->
                       left.values[keep[k]] \o RowOrZeros(right, left.index[keep[k]])]]

\* customer_features.join(transaction_features, how='left'), then fillna(0)
JoinLeft(left, right) ==
    [index   |-> left.index,
     columns |-> left.columns \o right.columns,
     values  |-> [i \in 1..Len(left.index) |->
                    left.values[i] \o RowOrZeros(right, left.index[i])]]

-----------------------------------------------------------------------------
(* 5. Feature scaling *)

\* customer_data[feature_cols]: every column carrying each requested label,
\* label by label (category labels occur twice, for spend and for quantity)
ColumnLocs(columns, labels) ==
    Flatten([k \in 1..Len(labels) |-> Positions(columns, labels[k])])

\* MinMaxScaler: scale_ is 1 / data_range, and 1 where data_range is 0
ScaleDenominator(lo, hi) == IF hi - lo = 0 THEN 1 ELSE hi - lo

\* variant: the values are divided by the range without the minimum taken off
FitTransform_NoShift(values, locs) ==
    [r \in 1..Len(values) |-> [i \in 1..Len(locs) |->
        LET col == {values[q][locs[i]] : q \in 1..Len(values)}
        IN Frac(values[r][locs[i]], ScaleDenominator(Min(col), Max(col)))]]

\* MinMaxScaler().fit_transform(X) for the columns X[:, i] = frame[:, locs[i]]
FitTransform(values, locs) ==
    [r \in 1..Len(values) |-> [i \in 1..Len(locs) |->
        LET col == {values[q][locs[i]] : q \in 1..Len(values)}
        IN Frac(values[r][locs[i]] - Min(col), ScaleDenominator(Min(col), Max(col)))]]

\* customer_data_scaled[feature_cols] = scaler.fit_transform(customer_data[feature_cols])
ScaleFrame(frame) ==
    LET feature_cols == frame.columns
        locs == ColumnLocs(frame.columns, feature_cols)
        t == FitTransform(frame.values, locs)
    IN [index   |-> frame.index,
        columns |-> frame.columns,
        values  |-> [r \in 1..Len(frame.values) |-> [p \in 1..Len(frame.columns) |->
                       t[r][Max({i \in 1..Len(locs) : locs[i] = p})]]]]

-----------------------------------------------------------------------------
(* 6. Similarity computation *)

\* the rows as integer vectors over the common denominator of all entries
\* (a common positive factor leaves every cosine unchanged)
IntegerRows(values) ==
    LET l == LCMSeq(Flatten([r \in 1..Len(values) |->
                       [p \in 1..Len(values[r]) |-> values[r][p][2]]]))
    IN [r \in 1..Len(values) |-> [p \in 1..Len(values[r]) |->
           values[r][p][1] * (l \div values[r][p][2])]]

Dot(u, v) == SumSeq([p \in 1..Len(u) |-> u[p] * v[p]])

\* variant: a row compared with an equal row always gives 1, a zero row too
Cosine_UnitDiagonal(u, v) ==
    IF u = v THEN <<1, 1>>
    ELSE IF Dot(u, u) = 0 \/ Dot(v, v) = 0 THEN <<0, 1>>
    ELSE Frac(Dot(u, v) * Dot(u, v), Dot(u, u) * Dot(v, v))

\* one entry of cosine_similarity: rows are divided by their norm, a zero row
\* is left as it is (its norm is taken as 1), so its products are all 0
Cosine(u, v) ==
    IF Dot(u, u) = 0 \/ Dot(v, v) = 0 THEN <<0, 1>>
    ELSE Frac(Dot(u, v) * Dot(u, v), Dot(u, u) * Dot(v, v))

\* pd.DataFrame(cosine_similarity(customer_data_scaled), index=..., columns=...)
SimilarityFrame(scaled) ==
    LET w == IntegerRows(scaled.values)
    IN [index   |-> scaled.index,
        columns |-> scaled.index,
        values  |-> [i \in 1..Len(w) |-> [j \in 1..Len(w) |-> Cosine(w[i], w[j])]]]

-----------------------------------------------------------------------------
(* 7. Generating lookalike recommendations *)

\* customers['CustomerID'].head(20).tolist()
FirstCustomers(custs) ==
    [i \in 1..(IF Len(custs) < HeadN THEN Len(custs) ELSE HeadN) |-> custs[i].CustomerID]

\* similarity_df.loc[cust_id]: the row of the key as a series of <<label, score>>
Loc(sim, cust_id) ==
    LET p == IndexOf(sim.index, cust_id)
    IN [j \in 1..Len(sim.columns) |-> <<sim.columns[j], sim.values[p][j]>>]

\* variant: also leaves out the candidates of similarity 0
DropLabel_Positive(series, label) ==
    SelectSeq(series, LAMBDA e : e[1] # label /\ e[2][1] > 0)

\* sim_scores.drop(index=cust_id)
DropLabel(series, label) == SelectSeq(series, LAMBDA e : e[1] # label)

\* variant: among equal scores the one that comes last (keep='last')
FirstLargest_Last(series) ==
    Max({i \in 1..Len(series) :
           \A j \in 1..Len(series) : FracLeq(series[j][2], series[i][2])})

\* position of the entry nlargest takes next: the highest score, and among
\* equal scores the one that comes first in the series (keep='first')
FirstLargest(series) ==
    Min({i \in 1..Len(series) :
           \A j \in 1..Len(series) : FracLeq(series[j][2], series[i][2])})

RemoveAt(s, i) == SubSeq(s, 1, i - 1) \o SubSeq(s, i + 1, Len(s))

\* variant: the first n entries of the series (head(n))
NLargest_Head(series, n) ==
    SubSeq(series, 1, IF Len(series) < n THEN Len(series) ELSE n)

\* sim_scores.nlargest(n)
RECURSIVE NLargest(_, _)
NLargest(series, n) ==
    IF n = 0 \/ series = <<>> THEN <<>>
    ELSE LET i == FirstLargest(series)
         IN <<series[i]>> \o NLargest(RemoveAt(series, i), n - 1)

\* variant: one entry more is taken and the first is skipped as the self-entry
\* (sim_scores.nlargest(4)[1:])
TopLookalikes_SkipFirst(sim, cust_id) ==
    Tail(NLargest(Loc(sim, cust_id), TopK + 1))

\* body of the loop for one cust_id: the list stored in lookalike_dict
TopLookalikes(sim, cust_id) ==
    NLargest(DropLabel(Loc(sim, cust_id), cust_id), TopK)

-----------------------------------------------------------------------------
(* Inputs: the three tables as read from the csv files *)

Rotate(s, r) == [i \in 1..Len(s) |-> s[((i - 1 + r) % Len(s)) + 1]]

\* row orders of a profile table with the keys 1..m: ascending keys,
\* descending keys, and ascending keys started at the second row
Orders(m) ==
    {[i \in 1..m |-> i], [i \in 1..m |-> m + 1 - i], Rotate([i \in 1..m |-> i], 1)}

\* Customers.csv with the keys in the given order and the given regions
CustomerTable(order, region) ==
    [i \in 1..Len(order) |-> [CustomerID |-> order[i], Region |-> region[order[i]]]]

\* Products.csv: product 1 is of category 1, product 2 of category 1 or 2;
\* product 3 is in no table
ProductTables ==
    {<< [ProductID |-> 1, Category |-> 1], [ProductID |-> 2, Category |-> c] >> :
        c \in 1..2}

\* a row of Transactions.csv; the value is quantity times a price per product
TransactionRow(id, cust, prod, qty) ==
    [TransactionID |-> id, CustomerID |-> cust, ProductID |-> prod,
     Quantity |-> qty, TotalValue |-> qty * (prod + 1)]

\* Transactions.csv with len rows: the id and the quantity are the row number,
\* the customer may be one the profile lacks (m + 1), the product one the
\* product table lacks (3)
TransactionTables(m, len) ==
    {[i \in 1..len |-> TransactionRow(i, c[i], p[i], i)] :
        c \in [1..len -> 1..(m + 1)], p \in [1..len -> 1..3]}

\* at most one purchase of product 1 per customer, by at most two customers,
\* the one with the larger key buying more
FewTransactions(m) ==
    {<<>>} \cup {<<TransactionRow(1, c, 1, 1)>> : c \in 1..m}
           \cup {<<TransactionRow(1, c[1], 1, 1), TransactionRow(2, c[2], 1, 2)>> :
                    c \in {d \in (1..m) \X (1..m) : d[1] < d[2]}}

InitPipeline ==
    /\ pc = "loaded"
    /\ error = "none"
    /\ transactions_products = <<>>
    /\ full_data = <<>>
    /\ transaction_features = EmptyFrame
    /\ customer_features = EmptyFrame
    /\ customer_data = EmptyFrame
    /\ customer_data_scaled = EmptyFrame
    /\ similarity_df = EmptyFrame
    /\ first_20_customers = <<>>
    /\ loop_i = 0
    /\ lookalike_dict = <<>>

\* small tables: keys in ascending order, regions possibly missing, any
\* transactions, MaxRows rows of customers and transactions together
InitDetailed ==
    /\ \E m \in 1..MaxRows : \E len \in 0..(MaxRows - m) :
         /\ customers \in {CustomerTable([i \in 1..m |-> i], r) :
                              r \in [1..m -> {NaN, 1, 2}]}
         /\ transactions \in TransactionTables(m, len)
    /\ products \in ProductTables
    /\ InitPipeline

\* larger populations in several row orders, every region known, few transactions
InitRanking ==
    /\ \E m \in 1..MaxRank :
         /\ customers \in {CustomerTable(o, r) : o \in Orders(m), r \in [1..m -> 1..2]}
         /\ transactions \in FewTransactions(m)
    /\ products = << [ProductID |-> 1, Category |-> 1], [ProductID |-> 2, Category |-> 2] >>
    /\ InitPipeline

Init == InitDetailed \/ InitRanking

-----------------------------------------------------------------------------
(* The cells of the notebook *)

\* 3.1 Merge Transactions with Products
MergeWithProducts ==
    /\ pc = "loaded"
    /\ transactions_products' = MergeProducts(transactions, products)
    /\ pc' = "merged_products"
    /\ UNCHANGED <<customers, products, transactions, error, full_data,
                   transaction_features, customer_features, customer_data,
                   customer_data_scaled, similarity_df, first_20_customers,
                   loop_i, lookalike_dict>>

\* 3.2 Merge with Customers
MergeWithCustomers ==
    /\ pc = "merged_products"
    /\ full_data' = MergeCustomers(transactions_products, customers)
    /\ pc' = "merged"
    /\ UNCHANGED <<customers, products, transactions, error, transactions_products,
                   transaction_features, customer_features, customer_data,
                   customer_data_scaled, similarity_df, first_20_customers,
                   loop_i, lookalike_dict>>

\* 4.1 Aggregate Transaction Data
Aggregate ==
    /\ pc = "merged"
    /\ transaction_features' = TransactionFeatures(full_data)
    /\ pc' = "aggregated"
    /\ UNCHANGED <<customers, products, transactions, error, transactions_products,
                   full_data, customer_features, customer_data,
                   customer_data_scaled, similarity_df, first_20_customers,
                   loop_i, lookalike_dict>>

\* 4.2 Encode Customer Profile Information
EncodeRegion ==
    /\ pc = "aggregated"
    /\ customer_features' = RegionEncoded(customers)
    /\ pc' = "encoded"
    /\ UNCHANGED <<customers, products, transactions, error, transactions_products,
                   full_data, transaction_features, customer_data,
                   customer_data_scaled, similarity_df, first_20_customers,
                   loop_i, lookalike_dict>>

\* 4.3 Combine Customer Profile and Transaction Features
Combine ==
    /\ pc = "encoded"
    /\ customer_data' = JoinLeft(customer_features, transaction_features)
    /\ pc' = "combined"
    /\ UNCHANGED <<customers, products, transactions, error, transactions_products,
                   full_data, transaction_features, customer_features,
                   customer_data_scaled, similarity_df, first_20_customers,
                   loop_i, lookalike_dict>>

\* 5. Feature Scaling
Scale ==
    /\ pc = "combined"
    /\ customer_data_scaled' = ScaleFrame(customer_data)
    /\ pc' = "scaled"
    /\ UNCHANGED <<customers, products, transactions, error, transactions_products,
                   full_data, transaction_features, customer_features,
                   customer_data, similarity_df, first_20_customers,
                   loop_i, lookalike_dict>>

\* 6. Similarity Computation
Similarity ==
    /\ pc = "scaled"
    /\ similarity_df' = SimilarityFrame(customer_data_scaled)
    /\ pc' = "similarity"
    /\ UNCHANGED <<customers, products, transactions, error, transactions_products,
                   full_data, transaction_features, customer_features,
                   customer_data, customer_data_scaled, first_20_customers,
                   loop_i, lookalike_dict>>

\* 7. first_20_customers = ...; lookalike_dict = {}
BeginRecommend ==
    /\ pc = "similarity"
    /\ first_20_customers' = FirstCustomers(customers)
    /\ lookalike_dict' = <<>>
    /\ loop_i' = 1
    /\ pc' = "recommend"
    /\ UNCHANGED <<customers, products, transactions, error, transactions_products,
                   full_data, transaction_features, customer_features,
                   customer_data, customer_data_scaled, similarity_df>>

\* lookalike_dict[key] = value
Put(d, key, value) ==
    [k \in (DOMAIN d) \cup {key} |-> IF k = key THEN value ELSE d[k]]

\* variant: a label the index lacks gets an empty list, no error
LoopBody_Default(cust_id, next_pc) ==
    /\ lookalike_dict' = Put(lookalike_dict, cust_id,
                             IF cust_id \in SeqToSet(similarity_df.index)
                             THEN TopLookalikes(similarity_df, cust_id) ELSE <<>>)
    /\ pc' = next_pc
    /\ error' = error

\* the body of the loop for one cust_id: similarity_df.loc[cust_id] raises
\* KeyError for a label the index lacks, otherwise the top entries are stored
LoopBody(cust_id, next_pc) ==
    IF cust_id \in SeqToSet(similarity_df.index)
    THEN /\ lookalike_dict' = Put(lookalike_dict, cust_id,
                                  TopLookalikes(similarity_df, cust_id))
         /\ pc' = next_pc
         /\ error' = error
    ELSE /\ error' = "KeyError"
         /\ pc' = "failed"
         /\ lookalike_dict' = lookalike_dict

\* 7. one iteration of: for cust_id in first_20_customers
RecommendNext ==
    /\ pc = "recommend"
    /\ loop_i <= Len(first_20_customers)
    /\ LoopBody(first_20_customers[loop_i], "recommend")
    /\ loop_i' = loop_i + 1
    /\ UNCHANGED <<customers, products, transactions, transactions_products,
                   full_data, transaction_features, customer_features,
                   customer_data, customer_data_scaled, similarity_df,
                   first_20_customers>>

\* 7. the loop has run through first_20_customers
EndRecommend ==
    /\ pc = "recommend"
    /\ loop_i > Len(first_20_customers)
    /\ pc' = "done"
    /\ UNCHANGED <<customers, products, transactions, error, transactions_products,
                   full_data, transaction_features, customer_features,
                   customer_data, customer_data_scaled, similarity_df,
                   first_20_customers, loop_i, lookalike_dict>>

\* the body of the loop run for a requested key, which may be one that the
\* profile table (and so the similarity matrix) lacks
Query(cust_id) ==
    /\ pc = "done"
    /\ LoopBody(cust_id, "done")
    /\ UNCHANGED <<customers, products, transactions, transactions_products,
                   full_data, transaction_features, customer_features,
                   customer_data, customer_data_scaled, similarity_df,
                   first_20_customers, loop_i>>

Next ==
    \/ MergeWithProducts
    \/ MergeWithCustomers
    \/ Aggregate
    \/ EncodeRegion
    \/ Combine
    \/ Scale
    \/ Similarity
    \/ BeginRecommend
    \/ RecommendNext
    \/ EndRecommend
    \/ \E cust_id \in 1..(Len(customers) + 1) : Query(cust_id)

Spec == Init /\ [][Next]_vars

-----------------------------------------------------------------------------
(* Properties.  The notions they use are stated from the input tables and  *)
(* from the similarity matrix, not from the operators of the pipeline.     *)

\* keys of the profile table, and the row of a key in it
Keys == {customers[i].CustomerID : i \in 1..Len(customers)}

ProfilePosition(key) == CHOOSE i \in 1..Len(customers) : customers[i].CustomerID = key

\* entry of the similarity matrix for two keys of its index
Sim(a, b) ==
    LET i == CHOOSE x \in 1..Len(similarity_df.index) : similarity_df.index[x] = a
        j == CHOOSE y \in 1..Len(similarity_df.columns) : similarity_df.columns[y] = b
    IN similarity_df.values[i][j]

Neighbors(c) == {lookalike_dict[c][i][1] : i \in 1..Len(lookalike_dict[c])}

\* the candidates of c that its result leaves out
LeftOut(c) == Keys \ ({c} \cup Neighbors(c))

SortedByScore(r) ==
    \A i, j \in 1..Len(r) : i < j => FracLeq(r[j][2], r[i][2])

\* C1 (self-exclusion): a queried customer never appears as a neighbor in its
\* own lookalike result.
C1_SelfExclusion ==
    \A c \in DOMAIN lookalike_dict : c \notin Neighbors(c)

\* the loop has stored a full result for a customer whose own similarity (1) is
\* strictly above that of a returned neighbor and equal to that of another
C1_Witness ==
    /\ pc = "done"
    /\ \E c \in DOMAIN lookalike_dict :
         /\ Len(lookalike_dict[c]) = TopK
         /\ Sim(c, c) = <<1, 1>>
         /\ lookalike_dict[c][1][2] = <<1, 1>>
         /\ FracLess(lookalike_dict[c][TopK][2], <<1, 1>>)

\* C2 as stated (top-K ordering): every result is sorted by score descending,
\* and equal scores are ordered, and at the cut-off selected, by ascending
\* customer key, whatever the row order of the profile table.
C2_Original ==
    \A c \in DOMAIN lookalike_dict :
        LET r == lookalike_dict[c]
        IN /\ SortedByScore(r)
           /\ \A i, j \in 1..Len(r) : (i < j /\ r[i][2] = r[j][2]) => r[i][1] < r[j][1]
           /\ \A o \in LeftOut(c) : \A i \in 1..Len(r) :
                  Sim(c, o) = r[i][2] => r[i][1] < o

\* C2 as amended (top-K ordering): every result is sorted by score descending,
\* and equal scores are ordered, and at the cut-off selected, by the row order
\* of the profile table: the customer whose row comes first is first.
C2_TopKOrdering ==
    \A c \in DOMAIN lookalike_dict :
        LET r == lookalike_dict[c]
        IN /\ SortedByScore(r)
           /\ \A i, j \in 1..Len(r) : (i < j /\ r[i][2] = r[j][2]) =>
                  ProfilePosition(r[i][1]) < ProfilePosition(r[j][1])
           /\ \A o \in LeftOut(c) : \A i \in 1..Len(r) :
                  Sim(c, o) = r[i][2] => ProfilePosition(r[i][1]) < ProfilePosition(o)

\* a profile table not in key order, and a full result with two equal scores in
\* it and a left-out candidate that ties with the last entry
C2_Witness ==
    /\ pc = "done"
    /\ \E i \in 1..(Len(customers) - 1) :
           customers[i].CustomerID > customers[i + 1].CustomerID
    /\ \E c \in DOMAIN lookalike_dict :
         LET r == lookalike_dict[c]
         IN /\ Len(r) = TopK
            /\ \E i \in 1..(TopK - 1) : r[i][2] = r[i + 1][2] /\ r[i][1] > r[i + 1][1]
            /\ \E o \in LeftOut(c) : Sim(c, o) = r[TopK][2] /\ o < r[TopK][1]

\* C3 (top-K maximality): the entries of a result are distinct other customers,
\* each with its entry of the similarity matrix as score, and no customer left
\* out is strictly more similar to the queried one than a returned neighbor.
C3_TopKMaximality ==
    \A c \in DOMAIN lookalike_dict :
        LET r == lookalike_dict[c]
        IN /\ \A i \in 1..Len(r) : r[i][1] \in Keys \ {c} /\ r[i][2] = Sim(c, r[i][1])
           /\ \A i, j \in 1..Len(r) : i # j => r[i][1] # r[j][1]
           /\ \A o \in LeftOut(c) : \A i \in 1..Len(r) : ~FracLess(r[i][2], Sim(c, o))

\* a full result that leaves out a strictly less similar customer whose row
\* comes before the row of a returned neighbor
C3_Witness ==
    /\ pc = "done"
    /\ \E c \in DOMAIN lookalike_dict :
         LET r == lookalike_dict[c]
         IN /\ Len(r) = TopK
            /\ \E o \in LeftOut(c) : \E i \in 1..TopK :
                  /\ FracLess(Sim(c, o), r[i][2])
                  /\ ProfilePosition(o) < ProfilePosition(r[i][1])

\* C4 (few neighbors): with M customers every result has min(K, M - 1) entries,
\* so M - 1 when M < K + 1; the loop raises no error and stores a result for
\* every customer of the profile table.
C4_FewNeighbors ==
    /\ \A c \in DOMAIN lookalike_dict :
          Len(lookalike_dict[c]) =
             (IF Len(customers) - 1 < TopK THEN Len(customers) - 1 ELSE TopK)
    /\ pc = "recommend" => error = "none"
    /\ pc = "failed" => loop_i > Len(first_20_customers)
    /\ pc = "done" => error = "none" /\ DOMAIN lookalike_dict = Keys

\* the loop has finished for a population of fewer than K + 1 customers, two of
\* them of similarity 0
C4_Witness ==
    /\ pc = "done"
    /\ Len(customers) > 1
    /\ Len(customers) < TopK + 1
    /\ \E c \in DOMAIN lookalike_dict :
          /\ Len(lookalike_dict[c]) = Len(customers) - 1
          /\ \E i \in 1..Len(lookalike_dict[c]) : lookalike_dict[c][i][2] = <<0, 1>>

\* states from which the feature vectors, the scaled vectors, the matrix exist
Encoded == pc \in {"encoded", "combined", "scaled", "similarity", "recommend", "done", "failed"}
Built == pc \in {"combined", "scaled", "similarity", "recommend", "done", "failed"}
Scaled == pc \in {"scaled", "similarity", "recommend", "done", "failed"}
MatrixBuilt == pc \in {"similarity", "recommend", "done", "failed"}

\* category of a product by the product table, NaN for a product it lacks
CategoryOf(prod) ==
    IF \E i \in 1..Len(products) : products[i].ProductID = prod
    THEN products[CHOOSE i \in 1..Len(products) : products[i].ProductID = prod].Category
    ELSE NaN

\* rows of the transaction table of a customer, and those of one category
RowsOf(c) == {i \in 1..Len(transactions) : transactions[i].CustomerID = c}

RowsOfIn(c, cat) == {i \in RowsOf(c) : CategoryOf(transactions[i].ProductID) = cat}

RECURSIVE SumOver(_, _)
SumOver(rows, col) ==
    IF rows = {} THEN 0
    ELSE LET i == CHOOSE x \in rows : TRUE
         IN transactions[i][col] + SumOver(rows \ {i}, col)

\* categories observed in the joined data, region values of the profile table
CategoryUniverse ==
    {CategoryOf(transactions[i].ProductID) : i \in 1..Len(transactions)} \ {NaN}

RegionValues == {customers[i].Region : i \in 1..Len(customers)}

\* idx lists every key of the profile table exactly once
ExactlyKeys(idx) == SeqToSet(idx) = Keys /\ Len(idx) = Cardinality(Keys)

\* C5 (key-set preservation): the keys carrying a feature vector, a scaled
\* vector and a row and column of the similarity matrix are the keys of the
\* profile table, each exactly once.
C5_KeySetPreservation ==
    /\ Built => ExactlyKeys(customer_data.index)
    /\ Scaled => ExactlyKeys(customer_data_scaled.index)
    /\ MatrixBuilt => ExactlyKeys(similarity_df.index) /\ ExactlyKeys(similarity_df.columns)

\* the matrix is built from tables in which a customer has no transaction and a
\* transaction names a customer the profile table lacks
C5_Witness ==
    /\ pc = "similarity"
    /\ \E c \in Keys : RowsOf(c) = {}
    /\ \E i \in 1..Len(transactions) : transactions[i].CustomerID \notin Keys

\* C6 (aggregation correctness): in a customer's feature vector the spend and
\* the quantity of every observed category are the sums over that customer's
\* transactions of the category, the two counts are the numbers of distinct
\* products and of distinct transaction ids of the customer, and a customer
\* without transactions has only zeros outside the region indicators.
C6_AggregationCorrectness ==
    Built =>
      \A i \in 1..Len(customer_data.index) :
        LET c == customer_data.index[i]
            row == customer_data.values[i]
            up == Positions(customer_data.columns, <<"UniqueProducts", 0>>)
            tt == Positions(customer_data.columns, <<"TotalTransactions", 0>>)
        IN /\ \A cat \in CategoryUniverse :
                LET pos == Positions(customer_data.columns, <<"Category", cat>>)
                IN /\ Len(pos) = 2
                   /\ row[pos[1]] = SumOver(RowsOfIn(c, cat), "TotalValue")
                   /\ row[pos[2]] = SumOver(RowsOfIn(c, cat), "Quantity")
           /\ Len(up) = 1
           /\ row[up[1]] = Cardinality({transactions[k].ProductID : k \in RowsOf(c)})
           /\ Len(tt) = 1
           /\ row[tt[1]] = Cardinality({transactions[k].TransactionID : k \in RowsOf(c)})
           /\ RowsOf(c) = {} =>
                \A p \in 1..Len(row) : customer_data.columns[p][1] # "Region" => row[p] = 0

\* the vectors are built from tables in which a customer has two transactions of
\* one category and another customer has none
C6_Witness ==
    /\ pc = "combined"
    /\ \E c \in Keys : \E cat \in CategoryUniverse : Cardinality(RowsOfIn(c, cat)) > 1
    /\ \E c \in Keys : RowsOf(c) = {}

C8_Normalization ==
    Scaled =>
      \A p \in 1..Len(customer_data.columns) :
        LET col == {customer_data.values[r][p] : r \in 1..Len(customer_data.values)}
            lo == CHOOSE x \in col : \A y \in col : x <= y
            hi == CHOOSE x \in col : \A y \in col : x >= y
        IN \A r \in 1..Len(customer_data.values) :
             LET v == customer_data.values[r][p]
                 s == customer_data_scaled.values[r][p]
             IN /\ s[2] > 0 /\ 0 <= s[1] /\ s[1] <= s[2]
                /\ hi > lo => s[1] * (hi - lo) = (v - lo) * s[2]
                /\ hi = lo => s[1] = 0

\* a dimension that is constant and not 0, and a scaled value strictly between
\* 0 and 1 in another dimension
C8_Witness ==
    /\ pc = "scaled"
    /\ \E p \in 1..Len(customer_data.columns) :
          \A r \in 1..Len(customer_data.values) :
             customer_data.values[r][p] = customer_data.values[1][p]
             /\ customer_data.values[r][p] > 0
    /\ \E p \in 1..Len(customer_data.columns) : \E r \in 1..Len(customer_data.values) :
          LET s == customer_data_scaled.values[r][p] IN 0 < s[1] /\ s[1] < s[2]

MissingRegion == \E i \in 1..Len(customers) : customers[i].Region = NaN

\* C10 as stated (missing attribute): when some customer record has no region,
\* the build fails: no indicator dimension exists for the missing value, the
\* pipeline does not get past the encoding, and no ranking is produced.
C10_Original ==
    MissingRegion =>
      /\ <<"Region", NaN>> \notin SeqToSet(customer_features.columns)
      /\ ~Built
      /\ lookalike_dict = <<>>

\* C10 as amended (missing attribute): when some customer record has no
\* region, the build does not fail: the missing value has an indicator
\* dimension of its own, the last of the region dimensions, set for exactly the
\* records without a region, every record has exactly one indicator set, and
\* the loop stores a ranking for every customer without an error.
C10_MissingAttribute ==
    MissingRegion =>
      /\ Encoded =>
           LET n == Len(customer_features.columns)
           IN /\ n = Cardinality(RegionValues)
              /\ customer_features.columns[n] = <<"Region", NaN>>
              /\ \A i \in 1..Len(customers) :
                    /\ customer_features.index[i] = customers[i].CustomerID
                    /\ customer_features.values[i][n] = 1 <=> customers[i].Region = NaN
                    /\ \A j \in 1..n : customer_features.values[i][j] \in {0, 1}
                    /\ SumSeq(customer_features.values[i]) = 1
      /\ pc # "failed" => error = "none"
      /\ pc = "done" => DOMAIN lookalike_dict = Keys

\* the loop has finished for a profile table with a record without a region and
\* a record with one, each with a neighbor in its ranking
C10_Witness ==
    /\ pc = "done"
    /\ MissingRegion
    /\ \E i \in 1..Len(customers) : customers[i].Region # NaN
    /\ \A c \in Keys : c \in DOMAIN lookalike_dict /\ Len(lookalike_dict[c]) > 0

\* the scaled vector of row i has only zeros
ZeroScaled(i) ==
    \A p \in 1..Len(customer_data_scaled.values[i]) :
        customer_data_scaled.values[i][p][1] = 0

\* row i of the unscaled frame has the least value of every dimension
AtEveryMinimum(i) ==
    \A p \in 1..Len(customer_data.columns) :
        \A r \in 1..Len(customer_data.values) :
            customer_data.values[i][p] <= customer_data.values[r][p]

\* C11 as stated (no degenerate vector): when every customer has a region, no
\* scaled feature vector is all-zero and every customer's self-similarity is 1.
C11_Original ==
    ~MissingRegion =>
      /\ Scaled => \A i \in 1..Len(customer_data_scaled.values) : ~ZeroScaled(i)
      /\ MatrixBuilt => \A c \in Keys : Sim(c, c) = <<1, 1>>

\* C11 as amended (degenerate vector): when every customer has a region, every
\* unscaled feature vector has its region indicator set, but the scaled vector
\* of a customer is all-zero exactly when the customer has the least value of
\* every dimension (so when all customers share one region and the customer has
\* no transactions); such a customer has similarity 0 to every customer, itself
\* included, and every other customer has self-similarity 1.
C11_DegenerateVector ==
    ~MissingRegion =>
      /\ Built => \A i \in 1..Len(customer_data.values) :
                     \E p \in 1..Len(customer_data.columns) :
                        customer_data.columns[p][1] = "Region"
                        /\ customer_data.values[i][p] = 1
      /\ Scaled => \A i \in 1..Len(customer_data_scaled.values) :
                      ZeroScaled(i) <=> AtEveryMinimum(i)
      /\ MatrixBuilt =>
           \A i \in 1..Len(customer_data_scaled.index) :
              LET c == customer_data_scaled.index[i]
              IN IF ZeroScaled(i)
                 THEN \A d \in Keys : Sim(c, d) = <<0, 1>> /\ Sim(d, c) = <<0, 1>>
                 ELSE Sim(c, c) = <<1, 1>>

\* the matrix is built for customers of one region, one without transactions,
\* whose scaled vector is all-zero, and one with a transaction
C11_Witness ==
    /\ pc = "similarity"
    /\ ~MissingRegion
    /\ Cardinality(RegionValues) = 1
    /\ \E i \in 1..Len(customer_data_scaled.index) :
          /\ RowsOf(customer_data_scaled.index[i]) = {}
          /\ ZeroScaled(i)
    /\ \E i \in 1..Len(customer_data_scaled.index) :
          /\ RowsOf(customer_data_scaled.index[i]) # {}
          /\ ~ZeroScaled(i)

=============================================================================
